---- MODULE Spec2Model ----
(***************************************************************************)
(* Model of eurostat_downloader.py: EurostatDownloader.fetch_all and the   *)
(* helpers it calls (_stagger, _get_html, _crawl_dataset_urls,             *)
(* _download_file, _print).                                                *)
(*                                                                         *)
(* Strings are sequences of one-character strings.  The clock is the       *)
(* integer millisecond value _current_time returns; it never runs          *)
(* backwards.  The output directory is a function from derived filenames   *)
(* to the content stored under them (Absent when there is no such file).   *)
(***************************************************************************)
EXTENDS Integers, Sequences, FiniteSets, TLC

VARIABLES
    pc,                     \* position of the process inside fetch_all
    run,                    \* "first" or "second" invocation of the program
    clock,                  \* time.time() in milliseconds
    last_stagger_finished,  \* self.last_stagger_finished
    stagger_amount,         \* self.stagger_amount
    quiet,                  \* self.quiet
    page,                   \* the listing page: a sequence of anchors
    dataset_urls,           \* local dataset_urls of fetch_all
    idx,                    \* number of items of dataset_urls already processed
    filename,               \* local filename of fetch_all (last one derived)
    fs,                     \* output directory: filename -> content
    fs_at_start,            \* fs when the current run started
    outcomes,               \* per item, what fetch_all handed to _print, in order
    events,                 \* per item, what happened to it, in order
    stdout,                 \* lines written to standard output by this run
    stderr,                 \* lines written to the error stream by this run
    requests,               \* outbound HTTP requests of this run, in order
    stagger_calls,          \* number of _stagger calls of this run
    sleeps,                 \* per _stagger call of this run, the time it asked to sleep
    first_run               \* what the first run left behind (set by SecondRun)

vars == <<pc, run, clock, last_stagger_finished, stagger_amount, quiet, page,
          dataset_urls, idx, filename, fs, fs_at_start, outcomes, events,
          stdout, stderr, requests, stagger_calls, sleeps, first_run>>

----------------------------------------------------------------------------
(* Bounds *)

MaxAnchors == 3     \* anchors on a listing page
MaxStagger == 2     \* largest configured stagger interval
MaxDelay == 1       \* longest delay between two statements, oversleep, request
MaxClock == 2       \* the environment adds delays only while clock < MaxClock
MaxPieces == 4      \* pieces a probed URL is assembled from

----------------------------------------------------------------------------
(* Strings *)

\* "downfile=data%2F", the separator of line 106
Marker == <<"d","o","w","n","f","i","l","e","=","d","a","t","a","%","2","F">>

Last(s) == s[Len(s)]

\* s has sep at position i
OccursAt(s, sep, i) ==
    /\ i >= 1
    /\ i + Len(sep) - 1 <= Len(s)
    /\ SubSeq(s, i, i + Len(sep) - 1) = sep

\* str.find: the least position >= from where sep occurs in s, 0 when none
Find(s, sep, from) ==
    LET hits == {i \in from..Len(s) : OccursAt(s, sep, i)}
    IN  IF hits = {} THEN 0 ELSE CHOOSE i \in hits : \A j \in hits : i <= j

\* str.split(sep): scan left to right, cutting at each non-overlapping sep
RECURSIVE Split(_, _)
Split(s, sep) ==
    LET i == Find(s, sep, 1)
    IN  IF i = 0
        THEN <<s>>
        ELSE <<SubSeq(s, 1, i - 1)>> \o Split(SubSeq(s, i + Len(sep), Len(s)), sep)

\* A slip: taking the piece after the first separator instead of the last piece
FilenameAfterFirstMarker(url) ==
    LET parts == Split(url, Marker)
    IN  IF Len(parts) > 1 THEN parts[2] ELSE parts[1]

\* line 106: dataset_url.split("downfile=data%2F")[-1]
Filename(url) == Last(Split(url, Marker))

----------------------------------------------------------------------------
(* Values *)

Absent == "absent"       \* no file under that name
Partial == "partial"     \* what a write that failed half way leaves behind
Old == "old"             \* content of a file that was there before the run
Bodies == {"body1", "body2"}    \* response.content of a dataset request
NoHref == <<"(no href)">>       \* an anchor without href attribute
NoFilename == <<"(unbound)">>   \* filename before the loop has assigned it
ListUrl == <<"l">>              \* self.list_url

\* dataset URLs of the listing: two URLs with the same filename, one without marker
UrlA1 == <<"x">> \o Marker \o <<"a">>
UrlA2 == <<"y">> \o Marker \o <<"a">>
UrlB == <<"b">>
Urls == {UrlA1, UrlA2, UrlB}

Anchor(t, h) == [text |-> t, href |-> h]
Texts == {"Download", "Other"}

SeqsUpTo(S, n) == UNION {[1..k -> S] : k \in 0..n}

----------------------------------------------------------------------------
(* Pure helpers of the downloader *)

\* A slip: matching every anchor that has an href, whatever its text
FindAllAnyText(pg) == SelectSeq(pg, LAMBDA a : a.href # NoHref)

\* line 91: html.findAll("a", href=True, text="Download")
FindAll(pg) == SelectSeq(pg, LAMBDA a : a.href # NoHref /\ a.text = "Download")

\* line 91: [a["href"] for a in ...]
CrawlDatasetUrls(pg) ==
    LET found == FindAll(pg) IN [i \in 1..Len(found) |-> found[i].href]

\* A slip: printing whatever the quiet flag says
print_always(out, text) == Append(out, text)

\* lines 33-39: _print appends to standard output unless quiet
print_unless_quiet(out, text) == IF quiet THEN out ELSE Append(out, text)

\* lines 100-104: "Found total {} datasets, downloading with {} millisecond staggering"
SummaryLine(total, amount) ==
    [kind |-> "summary", total |-> total, stagger |-> amount]

\* A slip: the index printed as enumerate gives it, from 0
ItemLineZeroBased(k, n, tag, what) ==
    [kind |-> "item", k |-> k - 1, n |-> n, tag |-> tag, what |-> what]

\* lines 109-126: "[{}/{}] SKIP|SUCCESS|FAILURE: ..." (what is the filename of a
\* SKIP or SUCCESS line and the URL of a FAILURE line)
ItemLine(k, n, tag, what) ==
    [kind |-> "item", k |-> k, n |-> n, tag |-> tag, what |-> what]

\* lines 64 and 69: "Failed to download {url}: ..." / "Failed to store {path}: ..."
ErrorLine(kind, what) == [kind |-> kind, what |-> what]

\* A slip: an existence test that never fires
ExistsIgnored(dir, fn) == FALSE

\* lines 107-108: (storage_path / filename).exists(); storage_path / "" is
\* storage_path itself, a directory that exists (line 133)
Exists(dir, fn) == IF fn = <<>> THEN TRUE ELSE dir[fn] # Absent

\* the files a page's links can name
FilenamesOf(pg) ==
    {Filename(pg[i].href) : i \in {j \in 1..Len(pg) : pg[j].href # NoHref}} \ {<<>>}

----------------------------------------------------------------------------
(* Time *)

\* time the environment may add between two statements or to a sleep, and
\* time an HTTP request may take
Delays == IF clock < MaxClock THEN 0..MaxDelay ELSE {0}

\* A slip: comparing against the last call without adding the interval
RemainingStaggerWithoutAmount == last_stagger_finished - clock

\* lines 47-49: remaining_stagger
RemainingStagger == last_stagger_finished + stagger_amount - clock

\* lines 45-52: _stagger sleeps for the remaining time (at least that long), then
\* records the clock
Stagger ==
    \E over \in Delays :
        /\ clock' = (IF RemainingStagger > 0 THEN clock + RemainingStagger ELSE clock) + over
        /\ last_stagger_finished' = clock'
        /\ stagger_calls' = stagger_calls + 1
        /\ sleeps' = Append(sleeps, IF RemainingStagger > 0 THEN RemainingStagger ELSE 0)

\* lines 62 and 80: requests.get is entered some time after _stagger returned, takes
\* some time, and returns a response or raises
Request(url, item, result) ==
    \E d \in Delays, dur \in Delays :
        /\ requests' = Append(requests,
                            [url |-> url, item |-> item, result |-> result,
                             start |-> clock + d, finish |-> clock + d + dur,
                             staggered |-> last_stagger_finished])
        /\ clock' = clock + d + dur

----------------------------------------------------------------------------
(* Initial states *)

\* anchors of the listing pages of Spec
MainAnchors == {Anchor("Download", u) : u \in Urls}

\* what is the same in every specification: the state a fresh process starts in
\* (lines 28-31) in front of a directory dir and a listing page pg
Fresh(pg, dir) ==
    /\ pc = "start"
    /\ run = "first"
    /\ last_stagger_finished = 0
    /\ page = pg
    /\ dataset_urls = <<>>
    /\ idx = 0
    /\ filename = NoFilename
    /\ fs = dir
    /\ fs_at_start = dir
    /\ outcomes = <<>>
    /\ events = <<>>
    /\ stdout = <<>>
    /\ stderr = <<>>
    /\ requests = <<>>
    /\ stagger_calls = 0
    /\ sleeps = <<>>
    /\ first_run = [pc |-> "none", fs |-> dir, outcomes |-> <<>>, events |-> <<>>]

\* Spec: every listing page, directory, verbosity and interval; the clock starts
\* where the environment adds no further delay, so time moves by sleeps alone
Init ==
    /\ clock = MaxClock
    /\ stagger_amount \in {0, MaxStagger}
    /\ quiet \in BOOLEAN
    /\ \E pg \in SeqsUpTo(MainAnchors, MaxAnchors) :
       \E dir \in [FilenamesOf(pg) -> {Absent, Old}] : Fresh(pg, dir)

\* SpecTiming: every start of the clock and every delay, on pages of Download links
InitTiming ==
    /\ clock \in {0, MaxClock}
    /\ stagger_amount \in 0..MaxStagger
    /\ quiet = FALSE
    /\ \E pg \in SeqsUpTo({Anchor("Download", UrlA1)}, MaxAnchors) :
       \E dir \in [FilenamesOf(pg) -> {Absent, Old}] : Fresh(pg, dir)

\* SpecFair: listings of links to two files, present or not, with and without
\* an interval; the clock starts where the environment adds no further delay
InitFair ==
    /\ clock = MaxClock
    /\ stagger_amount \in {0, MaxStagger}
    /\ quiet = FALSE
    /\ \E pg \in SeqsUpTo({Anchor("Download", UrlA1), Anchor("Download", UrlB)}, MaxAnchors) :
       \E dir \in [FilenamesOf(pg) -> {Absent, Old}] : Fresh(pg, dir)

\* concatenation of a sequence of strings
RECURSIVE Flatten(_)
Flatten(ps) == IF ps = <<>> THEN <<>> ELSE Head(ps) \o Flatten(Tail(ps))

\* what the probed URLs are assembled from: the marker, the marker short of its
\* last character, single characters of it, and a name
Pieces == {Marker, SubSeq(Marker, 1, Len(Marker) - 1), <<"d">>, <<"F">>, <<"f", "o", "o">>}
ProbeUrls == {Flatten(ps) : ps \in SeqsUpTo(Pieces, MaxPieces)}

\* SpecFilename: a listing of one Download link whose URL is any probed URL
InitFilename ==
    /\ clock = MaxClock
    /\ stagger_amount = 0
    /\ quiet = FALSE
    /\ \E u \in ProbeUrls :
       \E dir \in [FilenamesOf(<<Anchor("Download", u)>>) -> {Absent, Old}] :
           Fresh(<<Anchor("Download", u)>>, dir)

\* anchors of the listing pages of SpecCrawl: any text, with or without href
CrawlAnchors == {Anchor(t, h) : t \in Texts, h \in {UrlA1, UrlB, NoHref}}

\* SpecCrawl: every page of such anchors
InitCrawl ==
    /\ clock = MaxClock
    /\ stagger_amount = 0
    /\ quiet = FALSE
    /\ \E pg \in SeqsUpTo(CrawlAnchors, MaxAnchors) :
       \E dir \in [FilenamesOf(pg) -> {Absent, Old}] : Fresh(pg, dir)

----------------------------------------------------------------------------
(* fetch_all, step by step *)

N == Len(dataset_urls)
dataset_url == dataset_urls[idx + 1]

\* lines 109-126: the outcome of item idx+1 goes to _print, and the loop moves on
Report(tag, what, event) ==
    /\ outcomes' = Append(outcomes, [k |-> idx + 1, url |-> dataset_url, tag |-> tag])
    /\ events' = Append(events, event)
    /\ stdout' = print_unless_quiet(stdout, ItemLine(idx + 1, N, tag, what))
    /\ idx' = idx + 1

\* A slip: line 89 written as a call, so the crawl staggers twice
CrawlStaggerTwice ==
    /\ pc = "start"
    /\ \E over \in Delays :
          /\ clock' = (IF RemainingStagger > 0 THEN clock + RemainingStagger ELSE clock)
                          + stagger_amount + over
          /\ last_stagger_finished' = clock'
          /\ stagger_calls' = stagger_calls + 2
          /\ sleeps' = sleeps \o <<IF RemainingStagger > 0 THEN RemainingStagger ELSE 0,
                                   stagger_amount>>
    /\ pc' = "listing_get"
    /\ UNCHANGED <<run, stagger_amount, quiet, page, dataset_urls, idx, filename, fs,
                   fs_at_start, outcomes, events, stdout, stderr, requests, first_run>>

\* line 98 -> 90 -> 79: _crawl_dataset_urls names _stagger without calling it
\* (line 89), then _get_html calls it
CrawlStagger ==
    /\ pc = "start"
    /\ Stagger
    /\ pc' = "listing_get"
    /\ UNCHANGED <<run, stagger_amount, quiet, page, dataset_urls, idx, filename, fs,
                   fs_at_start, outcomes, events, stdout, stderr, requests, first_run>>

\* A slip: a listing request that raised is taken for an empty listing
ListingGetFailsCaught ==
    /\ pc = "listing_get"
    /\ Request(ListUrl, 0, "raised")
    /\ dataset_urls' = <<>>
    /\ stdout' = print_unless_quiet(stdout, SummaryLine(0, stagger_amount))
    /\ idx' = 0
    /\ pc' = "loop"
    /\ UNCHANGED <<run, last_stagger_finished, stagger_amount, quiet, page, filename, fs,
                   fs_at_start, outcomes, events, stderr, stagger_calls, sleeps, first_run>>

\* line 80: requests.get raises; nothing catches it, the process dies
ListingGetFails ==
    /\ pc = "listing_get"
    /\ Request(ListUrl, 0, "raised")
    /\ pc' = "error"
    /\ UNCHANGED <<run, last_stagger_finished, stagger_amount, quiet, page, dataset_urls,
                   idx, filename, fs, fs_at_start, outcomes, events, stdout, stderr,
                   stagger_calls, sleeps, first_run>>

\* lines 80-81, 91, 98-104: the listing arrives, is parsed, and the summary printed
ListingGetOk ==
    /\ pc = "listing_get"
    /\ Request(ListUrl, 0, "response")
    /\ dataset_urls' = CrawlDatasetUrls(page)
    /\ stdout' = print_unless_quiet(stdout,
                    SummaryLine(Len(CrawlDatasetUrls(page)), stagger_amount))
    /\ idx' = 0
    /\ pc' = "loop"
    /\ UNCHANGED <<run, last_stagger_finished, stagger_amount, quiet, page, filename, fs,
                   fs_at_start, outcomes, events, stderr, stagger_calls, sleeps, first_run>>

\* A slip: the loop written with a hand-kept index that the skip branch's
\* continue jumps over, so an existing target is looked at again and again
SkipWithoutAdvance ==
    /\ pc = "loop"
    /\ idx < N
    /\ Exists(fs, Filename(dataset_url))
    /\ filename' = Filename(dataset_url)
    /\ UNCHANGED <<pc, run, clock, last_stagger_finished, stagger_amount, quiet, page,
                   dataset_urls, idx, fs, fs_at_start, outcomes, events, stdout, stderr,
                   requests, stagger_calls, sleeps, first_run>>

\* lines 105-114: the target exists: report SKIP and continue
Skip ==
    /\ pc = "loop"
    /\ idx < N
    /\ Exists(fs, Filename(dataset_url))
    /\ filename' = Filename(dataset_url)
    /\ Report("SKIP", Filename(dataset_url), "exists")
    /\ UNCHANGED <<pc, run, clock, last_stagger_finished, stagger_amount, quiet, page,
                   dataset_urls, fs, fs_at_start, stderr, requests, stagger_calls, sleeps,
                   first_run>>

\* lines 105-108, 115, 60: the target does not exist: _download_file starts with _stagger
DownloadStagger ==
    /\ pc = "loop"
    /\ idx < N
    /\ ~Exists(fs, Filename(dataset_url))
    /\ filename' = Filename(dataset_url)
    /\ Stagger
    /\ pc' = "download_get"
    /\ UNCHANGED <<run, stagger_amount, quiet, page, dataset_urls, idx, fs, fs_at_start,
                   outcomes, events, stdout, stderr, requests, first_run>>

\* A slip: the target is opened for writing before the request is made, so a
\* request that raises leaves a truncated file
DownloadGetFailsLeavesFile ==
    /\ pc = "download_get"
    /\ Request(dataset_url, idx + 1, "raised")
    /\ fs' = [fs EXCEPT ![filename] = Partial]
    /\ stderr' = Append(stderr, ErrorLine("Failed to download", dataset_url))
    /\ Report("FAILURE", dataset_url, "get raised")
    /\ pc' = "loop"
    /\ UNCHANGED <<run, last_stagger_finished, stagger_amount, quiet, page, dataset_urls,
                   filename, fs_at_start, stagger_calls, sleeps, first_run>>

\* A slip: no try around the dataset request, the exception ends the run
DownloadGetUncaught ==
    /\ pc = "download_get"
    /\ Request(dataset_url, idx + 1, "raised")
    /\ pc' = "error"
    /\ UNCHANGED <<run, last_stagger_finished, stagger_amount, quiet, page, dataset_urls,
                   idx, filename, fs, fs_at_start, outcomes, events, stdout, stderr,
                   stagger_calls, sleeps, first_run>>

\* lines 61-65, 121-126: requests.get raises
DownloadGetFails ==
    /\ pc = "download_get"
    /\ Request(dataset_url, idx + 1, "raised")
    /\ stderr' = Append(stderr, ErrorLine("Failed to download", dataset_url))
    /\ Report("FAILURE", dataset_url, "get raised")
    /\ pc' = "loop"
    /\ UNCHANGED <<run, last_stagger_finished, stagger_amount, quiet, page, dataset_urls,
                   filename, fs, fs_at_start, stagger_calls, sleeps, first_run>>

\* A slip: the except around write_bytes falls through to return True
DownloadStoreFailsReturnsTrue ==
    /\ pc = "download_get"
    /\ Request(dataset_url, idx + 1, "response")
    /\ \E left \in {fs[filename], Partial} : fs' = [fs EXCEPT ![filename] = left]
    /\ stderr' = Append(stderr, ErrorLine("Failed to store", filename))
    /\ Report("SUCCESS", filename, "write raised")
    /\ pc' = "loop"
    /\ UNCHANGED <<run, last_stagger_finished, stagger_amount, quiet, page, dataset_urls,
                   filename, fs_at_start, stagger_calls, sleeps, first_run>>

\* lines 62, 66-70, 121-126: the response arrives and path.write_bytes raises, either
\* before the file is opened or after it was opened for writing
DownloadStoreFails ==
    /\ pc = "download_get"
    /\ Request(dataset_url, idx + 1, "response")
    /\ \E left \in {fs[filename], Partial} : fs' = [fs EXCEPT ![filename] = left]
    /\ stderr' = Append(stderr, ErrorLine("Failed to store", filename))
    /\ Report("FAILURE", dataset_url, "write raised")
    /\ pc' = "loop"
    /\ UNCHANGED <<run, last_stagger_finished, stagger_amount, quiet, page, dataset_urls,
                   filename, fs_at_start, stagger_calls, sleeps, first_run>>

\* A slip: success is returned without the body having been written
DownloadOkNotStored ==
    /\ pc = "download_get"
    /\ Request(dataset_url, idx + 1, "response")
    /\ Report("SUCCESS", filename, "stored")
    /\ pc' = "loop"
    /\ UNCHANGED <<run, last_stagger_finished, stagger_amount, quiet, page, dataset_urls,
                   filename, fs, fs_at_start, stderr, stagger_calls, sleeps, first_run>>

\* lines 62, 67, 71, 115-120: the response arrives and its body is written
DownloadOk ==
    /\ pc = "download_get"
    /\ Request(dataset_url, idx + 1, "response")
    /\ \E body \in Bodies : fs' = [fs EXCEPT ![filename] = body]
    /\ Report("SUCCESS", filename, "stored")
    /\ pc' = "loop"
    /\ UNCHANGED <<run, last_stagger_finished, stagger_amount, quiet, page, dataset_urls,
                   filename, fs_at_start, stderr, stagger_calls, sleeps, first_run>>

\* line 105: the loop is exhausted, fetch_all returns
Finish ==
    /\ pc = "loop"
    /\ idx = N
    /\ pc' = "done"
    /\ UNCHANGED <<run, clock, last_stagger_finished, stagger_amount, quiet, page,
                   dataset_urls, idx, filename, fs, fs_at_start, outcomes, events, stdout,
                   stderr, requests, stagger_calls, sleeps, first_run>>

\* lines 167-169, again: the program is started a second time with the same
\* arguments, on the same directory, against the same listing
Restart(kept) ==
    /\ pc \in {"done", "error"}
    /\ run = "first"
    /\ first_run' = [pc |-> pc, fs |-> fs, outcomes |-> outcomes, events |-> kept]
    /\ run' = "second"
    /\ pc' = "start"
    /\ last_stagger_finished' = 0
    /\ dataset_urls' = <<>>
    /\ idx' = 0
    /\ filename' = NoFilename
    /\ fs_at_start' = fs
    /\ outcomes' = <<>>
    /\ events' = <<>>
    /\ stdout' = <<>>
    /\ stderr' = <<>>
    /\ requests' = <<>>
    /\ stagger_calls' = 0
    /\ sleeps' = <<>>
    /\ UNCHANGED <<clock, stagger_amount, quiet, page, fs>>

\* the second start, the first run's events forgotten
SecondRun == Restart(<<>>)

\* the second start, the first run's events kept for comparison
SecondRunRecalling == Restart(events)

\* one step of a run of fetch_all
RunStep ==
    \/ CrawlStagger
    \/ ListingGetFails
    \/ ListingGetOk
    \/ Skip
    \/ DownloadStagger
    \/ DownloadGetFails
    \/ DownloadStoreFails
    \/ DownloadOk
    \/ Finish

Next ==
    \/ CrawlStagger
    \/ ListingGetFails
    \/ ListingGetOk
    \/ Skip
    \/ DownloadStagger
    \/ DownloadGetFails
    \/ DownloadStoreFails
    \/ DownloadOk
    \/ Finish
    \/ SecondRun

Spec == Init /\ [][Next]_vars

SpecTiming == InitTiming /\ [][Next]_vars

SpecFilename == InitFilename /\ [][Next]_vars

SpecCrawl == InitCrawl /\ [][Next]_vars

\* SpecRerun: two runs, the second one able to look back at what happened to
\* each item of the first
InitRerun ==
    /\ clock = MaxClock
    /\ stagger_amount = 0
    /\ quiet = FALSE
    /\ \E pg \in SeqsUpTo(MainAnchors, MaxAnchors) :
       \E dir \in [FilenamesOf(pg) -> {Absent, Old}] : Fresh(pg, dir)

NextRecalling == RunStep \/ SecondRunRecalling

SpecRerun == InitRerun /\ [][NextRecalling]_vars

\* SpecFair: the runs of SpecTiming in which a run that can take a step takes
\* one: the process is the only thread, every sleep is finite and every HTTP
\* request returns or raises
SpecFair == InitFair /\ [][Next]_vars /\ WF_vars(RunStep)

----------------------------------------------------------------------------
(* Claims *)

TargetIsThere ==
    LET fn == Filename(dataset_url)
    IN  IF fn = <<>> THEN TRUE ELSE fs[fn] # Absent

\* C2: when the target path of the item being processed exists, the step taken
\* issues no HTTP request and no rate-limiter call, changes no file, hands a
\* SKIP line to _print (on standard output unless quiet) and moves to the next item.
SkipBeforeNetwork ==
    [][(pc = "loop" /\ idx < N /\ TargetIsThere) =>
          /\ requests' = requests
          /\ stagger_calls' = stagger_calls
          /\ last_stagger_finished' = last_stagger_finished
          /\ fs' = fs
          /\ stderr' = stderr
          /\ outcomes' = Append(outcomes, [k |-> idx + 1, url |-> dataset_url, tag |-> "SKIP"])
          /\ stdout' = IF quiet THEN stdout
                       ELSE Append(stdout, ItemLine(idx + 1, N, "SKIP", Filename(dataset_url)))
          /\ idx' = idx + 1
          /\ pc' = "loop"]_vars

\* C2 witness: a finished run in which an item was skipped and a later one requested
SkipWitness ==
    /\ pc = "done"
    /\ \E k \in 1..Len(events) :
          /\ events[k] = "exists"
          /\ \A i \in 1..Len(requests) : requests[i].item # k
          /\ \E i \in 1..Len(requests) : requests[i].item > k

\* what C3 says of every state
FailureIsolationState ==
    /\ pc = "error" => (Len(requests) = 1 /\ requests[1].item = 0 /\ outcomes = <<>>)
    /\ Len(outcomes) = idx /\ Len(events) = idx /\ idx <= N
    /\ \A k \in 1..idx :
          /\ outcomes[k].k = k
          /\ outcomes[k].url = dataset_urls[k]
          /\ events[k] \in {"get raised", "write raised"} => outcomes[k].tag = "FAILURE"
    /\ \A i, j \in 1..Len(requests) : i < j => requests[i].item < requests[j].item
    /\ pc = "done" => idx = N

\* C3: after the crawl, failures never end the run: the process is in the error
\* state only straight after the listing request, every way a download ends
\* leads back to the loop at the next item, items are reported one by one in
\* listing order, an item whose GET or write raised is reported as FAILURE, and
\* at the end all N items are reported.
FailureIsolation ==
    /\ []FailureIsolationState
    /\ [][pc = "download_get" => (pc' = "loop" /\ idx' = idx + 1)]_vars

\* C3 witness: a finished run of three items whose second download failed while
\* the first and the third were stored
FailureIsolationWitness ==
    /\ pc = "done"
    /\ N = 3
    /\ events[1] = "stored"
    /\ events[2] \in {"get raised", "write raised"}
    /\ events[3] = "stored"

\* C4: when the listing request raised, the run is in the error state, nothing
\* was printed or reported, no dataset request was issued and the directory is
\* as it was when the run started.
ListingFatality ==
    (Len(requests) >= 1 /\ requests[1].result = "raised") =>
        /\ pc = "error"
        /\ stdout = <<>>
        /\ outcomes = <<>>
        /\ events = <<>>
        /\ Len(requests) = 1
        /\ dataset_urls = <<>>
        /\ fs = fs_at_start

\* C4 witness: the listing request raised on a page that has Download links, in
\* front of a directory that holds a file
ListingFatalityWitness ==
    /\ pc = "error"
    /\ requests[1].result = "raised"
    /\ FindAll(page) # <<>>
    /\ \E fn \in DOMAIN fs : fs[fn] # Absent

NoFailure(outs) == \A k \in 1..Len(outs) : outs[k].tag # "FAILURE"
AllSkipped(outs) == \A k \in 1..Len(outs) : outs[k].tag = "SKIP"

ConsoleOutput ==
    ~quiet =>
        IF pc \in {"start", "listing_get", "error"}
        THEN stdout = <<>>
        ELSE /\ Len(stdout) = 1 + idx
             /\ stdout[1] = SummaryLine(N, stagger_amount)
             /\ \A k \in 1..idx :
                   /\ stdout[k + 1].kind = "item"
                   /\ stdout[k + 1].k = k
                   /\ stdout[k + 1].n = N
                   /\ stdout[k + 1].tag \in {"SKIP", "SUCCESS", "FAILURE"}
                   /\ stdout[k + 1].tag = outcomes[k].tag
             /\ pc = "done" => idx = N

\* C6 witness: a finished run, not quiet, whose three item lines carry the three tags
ConsoleOutputWitness ==
    /\ ~quiet
    /\ pc = "done"
    /\ N = 3
    /\ {stdout[k + 1].tag : k \in 1..3} = {"SKIP", "SUCCESS", "FAILURE"}

\* the substring of url after the last occurrence of the marker, the whole url
\* when there is none
AfterLastMarker(url) ==
    LET hits == {i \in 1..Len(url) : OccursAt(url, Marker, i)}
    IN  IF hits = {} THEN url
        ELSE LET last == CHOOSE i \in hits : \A j \in hits : j <= i
             IN  SubSeq(url, last + Len(Marker), Len(url))

\* C7: the filename derived for an item is the substring of its URL after the
\* last occurrence of the marker, and the whole URL when the marker does not occur.
FilenameDerivation ==
    /\ pc = "download_get" => filename = AfterLastMarker(dataset_urls[idx + 1])
    /\ (pc \in {"loop", "done"} /\ idx > 0) => filename = AfterLastMarker(dataset_urls[idx])

\* C7 witness: the filename foo derived from a URL in which the marker occurs twice
FilenameDerivationWitness ==
    /\ pc = "download_get"
    /\ dataset_url = Marker \o <<"d">> \o Marker \o <<"f", "o", "o">>
    /\ filename = <<"f", "o", "o">>

\* C7 witness of the other case: a URL without the marker is its own filename
FilenameWithoutMarkerWitness ==
    /\ pc = "download_get"
    /\ dataset_url = SubSeq(Marker, 1, Len(Marker) - 1) \o <<"f", "o", "o">>
    /\ filename = dataset_url

\* the error lines the first k items must have left on the error stream
RECURSIVE ExpectedErrors(_)
ExpectedErrors(k) ==
    IF k = 0 THEN <<>>
    ELSE ExpectedErrors(k - 1) \o
         (IF events[k] = "get raised"
          THEN <<[kind |-> "Failed to download", what |-> dataset_urls[k]]>>
          ELSE IF events[k] = "write raised"
          THEN <<[kind |-> "Failed to store", what |-> AfterLastMarker(dataset_urls[k])]>>
          ELSE <<>>)

\* C8: in a quiet run nothing is written to standard output, and the error
\* stream holds, in order, one 'Failed to download' line per GET that raised and
\* one 'Failed to store' line per write that raised.
QuietMode ==
    quiet => (stdout = <<>> /\ stderr = ExpectedErrors(Len(events)))

\* C8 witness: a finished quiet run with a skipped item, a failed GET and a failed write
QuietModeWitness ==
    /\ quiet
    /\ pc = "done"
    /\ {events[k] : k \in 1..Len(events)} = {"exists", "get raised", "write raised"}

\* the href values of the Download anchors of pg, in document order
RECURSIVE DownloadHrefs(_)
DownloadHrefs(pg) ==
    IF pg = <<>> THEN <<>>
    ELSE (IF Head(pg).text = "Download" /\ Head(pg).href # NoHref
          THEN <<Head(pg).href>> ELSE <<>>) \o DownloadHrefs(Tail(pg))

\* C9: the crawled sequence is the href values of the anchors whose text is
\* "Download" (those that have an href), in document order, duplicates kept.
LinkExtraction ==
    pc \in {"loop", "download_get", "done"} => dataset_urls = DownloadHrefs(page)

\* C9 witness: a page with the same Download link twice around an anchor of
\* another text, crawled to that link twice
LinkExtractionWitness ==
    /\ pc = "loop"
    /\ page = <<Anchor("Download", UrlA1), Anchor("Other", UrlB), Anchor("Download", UrlA1)>>
    /\ dataset_urls = <<UrlA1, UrlA1>>

\* C10: every file that was there when the run started has the content it had
\* then, and the File Downloader is only ever inside a download of a target
\* that is not there.
NoOverwrite ==
    /\ \A fn \in DOMAIN fs : fs_at_start[fn] # Absent => fs[fn] = fs_at_start[fn]
    /\ pc = "download_get" =>
          (filename # <<>> /\ fs[filename] = Absent /\ filename = Filename(dataset_url))

\* C10 witness: a finished run that stored a file next to a file that was there before
NoOverwriteWitness ==
    /\ pc = "done"
    /\ \E fn \in DOMAIN fs : fs_at_start[fn] = Old /\ fs[fn] = Old
    /\ \E fn \in DOMAIN fs : fs_at_start[fn] = Absent /\ fs[fn] \in Bodies
    /\ \E k \in 1..Len(events) : events[k] = "exists"

\* the filename derived from each URL a listing of Spec may link, tabulated
TargetOf == [u \in Urls |-> Filename(u)]

\* the requests of this run issued for item k
RequestsOf(k) == {i \in 1..Len(requests) : requests[i].item = k}

\* C11: for every item that was not skipped, SUCCESS is reported exactly when
\* its GET returned a response and the write succeeded, and then the target
\* path holds a response body; FAILURE is reported exactly when its GET raised
\* or its write raised.
OutcomeMatchesDownload ==
    \A k \in 1..idx :
        events[k] # "exists" =>
            /\ Cardinality(RequestsOf(k)) = 1
            /\ \A i \in RequestsOf(k) :
                  /\ requests[i].result = "raised" <=> events[k] = "get raised"
                  /\ outcomes[k].tag = "SUCCESS" <=>
                        (requests[i].result = "response" /\ events[k] # "write raised")
                  /\ outcomes[k].tag = "FAILURE" <=>
                        (requests[i].result = "raised" \/ events[k] = "write raised")
            /\ outcomes[k].tag = "SUCCESS" => fs[TargetOf[dataset_urls[k]]] \in Bodies

\* C11 witness: a finished run with a stored item, an item whose GET raised and
\* an item whose write raised
OutcomeMatchesDownloadWitness ==
    /\ pc = "done"
    /\ {events[k] : k \in 1..Len(events)} = {"stored", "get raised", "write raised"}

\* C12: the first rate-limiter call of a run, the one in front of the listing
\* request, asks for no sleep, whatever the configured interval.
FirstCallDoesNotWait ==
    Len(sleeps) >= 1 => sleeps[1] = 0

\* C13: once the listing has arrived, the run has issued one request for the
\* listing and one per item that was not skipped; every request has its own
\* rate-limiter call in front of it, made after the previous request completed
\* (so the crawl staggers once); every call leaves its time in last_stagger_finished.
RequestAccounting ==
    /\ pc \in {"loop", "done"} =>
          Len(requests) = 1 + Cardinality({k \in 1..idx : events[k] # "exists"})
    /\ stagger_calls = Len(requests) + (IF pc \in {"listing_get", "download_get"} THEN 1 ELSE 0)
    /\ Len(sleeps) = stagger_calls
    /\ \A i \in 1..Len(requests) : requests[i].staggered <= requests[i].start
    /\ \A i \in 1..(Len(requests) - 1) : requests[i + 1].staggered >= requests[i].finish
    /\ pc \in {"listing_get", "download_get"} => last_stagger_finished = clock
    /\ Len(requests) >= 1 => last_stagger_finished >= requests[Len(requests)].staggered

\* C13 witness: a finished run of three items, one of them skipped, under a
\* positive interval: three requests, three rate-limiter calls
RequestAccountingWitness ==
    /\ pc = "done"
    /\ stagger_amount > 0
    /\ N = 3
    /\ Cardinality({k \in 1..3 : events[k] = "exists"}) = 1
    /\ Len(requests) = 3
    /\ stagger_calls = 3

\* items j and k of the listing derive the same target path
SameTarget(j, k) == TargetOf[dataset_urls[j]] = TargetOf[dataset_urls[k]]

\* C14: within one run, once an item has been stored, every later item that
\* derives the same target path is reported as SKIP without a request, so no
\* target path is stored twice.
DuplicatesSkipped ==
    /\ \A j, k \in 1..idx :
          (j < k /\ events[j] = "stored" /\ SameTarget(j, k)) =>
              (outcomes[k].tag = "SKIP" /\ events[k] = "exists" /\ RequestsOf(k) = {})
    /\ \A j, k \in 1..idx :
          (j # k /\ events[j] = "stored" /\ events[k] = "stored") => ~SameTarget(j, k)

\* C14 witness: a link stored, then a different link to the same filename and
\* the first link again, both skipped
DuplicatesSkippedWitness ==
    /\ pc = "done"
    /\ dataset_urls = <<UrlA1, UrlA2, UrlA1>>
    /\ events = <<"stored", "exists", "exists">>
    /\ Len(requests) = 2

\* the item just processed is one whose GET raised, and its target path is not there
PathAbsentAfterGetFailure ==
    (pc = "loop" /\ idx >= 1 /\ events[idx] = "get raised") =>
        (outcomes[idx].tag = "FAILURE" /\ fs[filename] = Absent)

\* item k, whose GET raised in the first run, is requested and not skipped in the second
RequestedAgain(k) == events[k] # "exists" /\ RequestsOf(k) # {}

\* another item of the listing with the same target path left a file there, later
\* in the first run or earlier in the second
CreatedByAnotherItem(k) ==
    \E j \in 1..N :
        \/ j > k /\ first_run.events[j] \in {"stored", "write raised"} /\ SameTarget(j, k)
        \/ j < k /\ events[j] \in {"stored", "write raised"} /\ SameTarget(j, k)

\* C15 (as stated): when the GET for an item raised, the target path does not
\* exist afterwards, and a later run requests that item again instead of
\* skipping it.
GetFailureRequestedAgain ==
    /\ PathAbsentAfterGetFailure
    /\ (run = "second" /\ first_run.pc = "done") =>
          \A k \in 1..idx : first_run.events[k] = "get raised" => RequestedAgain(k)

\* C15 (amended): a GET that raises changes no file and is reported as FAILURE,
\* the target path does not exist when the File Downloader returns, and a later
\* run requests that item again instead of skipping it unless another item that
\* derives the same target path has left a file there in the meantime.
GetFailureLeavesFiles ==
    /\ [][(pc = "download_get" /\ requests' # requests
              /\ requests'[Len(requests')].result = "raised") =>
             (fs' = fs /\ pc' = "loop" /\ outcomes'[idx'].tag = "FAILURE")]_vars
    /\ []PathAbsentAfterGetFailure
    /\ []((run = "second" /\ first_run.pc = "done") =>
            \A k \in 1..idx :
                first_run.events[k] = "get raised" =>
                    (RequestedAgain(k) \/ CreatedByAnotherItem(k)))

\* C15 witness: the second run ended having stored the item whose GET raised
\* in the first run, after skipping another one
GetFailureWitness ==
    /\ run = "second" /\ pc = "done" /\ first_run.pc = "done"
    /\ N = 2
    /\ first_run.events = <<"exists", "get raised">>
    /\ events = <<"exists", "stored">>

\* the steps of the linear sequence start -> crawl -> items -> end
Sequel ==
    {<<"start", "listing_get">>, <<"listing_get", "loop">>, <<"listing_get", "error">>,
     <<"loop", "loop">>, <<"loop", "download_get">>, <<"download_get", "loop">>,
     <<"loop", "done">>}

\* C16: every run that is started ends, and a run whose crawl returned ends
\* normally with exactly N per-item steps behind it, each a skip, a stored
\* download or a failed download; within a run the position only moves along
\* start -> crawl -> items -> end and the item index only ever grows by one,
\* together with that item's outcome.
Termination ==
    /\ (pc \in {"start", "listing_get", "loop", "download_get"}) ~> (pc \in {"done", "error"})
    /\ [](pc = "done" =>
            /\ idx = N
            /\ Len(events) = N
            /\ \A k \in 1..N :
                  events[k] \in {"exists", "stored", "get raised", "write raised"})
    /\ [][run' = run =>
             /\ <<pc, pc'>> \in Sequel
             /\ \/ idx' = idx /\ events' = events
                \/ idx' = idx + 1 /\ events' # events /\ Len(events') = idx']_vars

\* C16 witness: a run of three items, one skipped, one stored, one failed, at its end
TerminationWitness ==
    /\ pc = "done"
    /\ N = 3
    /\ {events[k] : k \in 1..3} = {"exists", "stored", "get raised"}
    /\ stagger_amount > 0

====
